---------------------------- MODULE Spec2Model ----------------------------
(***************************************************************************)
(* A model of the GitHub Repo Analyst (src/app.py): the URL validator, the *)
(* important-file selector, the repository data fetcher, the AI analysis   *)
(* runner and the button handler of main() with its session state.         *)
(*                                                                         *)
(* Three specifications share the variables:                               *)
(*   SpecValidate  applies validate_repo_url to bounded URL strings;       *)
(*   SpecSelect    applies get_important_file_content to bounded listings; *)
(*   Spec          runs main()'s handler step by step over a session.      *)
(* Strings that the code scans (URLs) are sequences of one-character       *)
(* strings; strings it only passes around are TLA+ strings.                *)
(***************************************************************************)
EXTENDS Integers, Sequences, FiniteSets, TLC

VARIABLES
    \* --- SpecValidate ---
    url,                \* the argument of validate_repo_url
    url_result,         \* its outcome, NotCalled before the call
    \* --- SpecSelect ---
    sel_world,          \* forge answers for the root listing and its files
    sel_max_files,      \* argument max_files
    sel_max_file_size,  \* argument max_file_size
    sel_result,         \* outcome of get_important_file_content, NotCalled before
    \* --- Spec: main() ---
    pc,                 \* position of the script run
    run,                \* number of the current (or last) analysis run
    repo_url,           \* text of the URL input of the current run
    repo_name,          \* local repo_name (line 162)
    root_world,         \* what the forge answered to the listing in this run
    files,              \* important_files computed in this run
    log,                \* calls made in this run, in order, with their outcome
    error,              \* message shown by st.error in this run
    warned,             \* st.warning of get_important_file_content in this run
    analysis_complete,  \* st.session_state.analysis_complete
    repo_data,          \* st.session_state.repo_data
    ai_results,         \* st.session_state.ai_results
    repo_data_run,      \* run that wrote repo_data (0: none)
    ai_results_run,     \* run that wrote ai_results (0: none)
    rendered            \* what the results block (lines 182-205) last displayed

vars == <<url, url_result, sel_world, sel_max_files, sel_max_file_size,
          sel_result, pc, run, repo_url, repo_name, root_world, files, log,
          error, warned, analysis_complete, repo_data, ai_results,
          repo_data_run, ai_results_run, rendered>>

validateVars == <<url, url_result>>
selectVars == <<sel_world, sel_max_files, sel_max_file_size, sel_result>>
mainVars == <<pc, run, repo_url, repo_name, root_world, files, log, error,
              warned, analysis_complete, repo_data, ai_results,
              repo_data_run, ai_results_run, rendered>>

NotCalled == [ok |-> FALSE, error |-> "NotCalled"]
None == [none |-> TRUE]

-----------------------------------------------------------------------------
(* Bounds of the model.                                                    *)

\* longest tail appended to a URL prefix
MaxTail == 4
\* longest root listing given to the file selector
MaxListing == 3
\* largest max_files argument tried by SpecSelect
MaxFilesArg == 3
\* longest root listing the forge answers inside a run of main()
MaxRunListing == 2
\* analysis runs in one session
MaxRuns == 2

-----------------------------------------------------------------------------
(* Sequences of characters.                                                *)

RECURSIVE SeqsUpTo(_, _)
SeqsUpTo(S, n) ==
    IF n = 0 THEN {<<>>}
    ELSE LET shorter == SeqsUpTo(S, n - 1)
         IN  shorter \cup {Append(s, c) : s \in {t \in shorter : Len(t) = n - 1}, c \in S}

StartsWith(s, lit) ==
    /\ Len(s) >= Len(lit)
    /\ SubSeq(s, 1, Len(lit)) = lit

Drop(s, n) == SubSeq(s, n + 1, Len(s))

\* length of the longest prefix of s that holds no "/": what [^/]+ consumes
RECURSIVE NonSlashRun(_)
NonSlashRun(s) ==
    IF s = <<>> \/ Head(s) = "/" THEN 0 ELSE 1 + NonSlashRun(Tail(s))

-----------------------------------------------------------------------------
(* validate_repo_url, src/app.py lines 18-24.                              *)

LitHttp == <<"h", "t", "t", "p">>
LitHost == <<":", "/", "/", "g", "i", "t", "h", "u", "b", ".", "c", "o", "m", "/">>

InvalidUrlError == [ok |-> FALSE, error |-> "ValueError: Invalid GitHub URL"]

\* The pattern with its second group widened to (.+): the repository name
\* would swallow the trailing path segments.
validate_repo_url_dotplus(u) ==
    IF ~StartsWith(u, LitHttp) THEN InvalidUrlError
    ELSE LET a1 == Drop(u, Len(LitHttp))
             a2 == IF a1 # <<>> /\ Head(a1) = "s" THEN Tail(a1) ELSE a1
         IN  IF ~StartsWith(a2, LitHost) THEN InvalidUrlError
             ELSE LET a3 == Drop(a2, Len(LitHost))
                      n1 == NonSlashRun(a3)
                      a4 == Drop(a3, n1)
                  IN  IF n1 = 0 \/ a4 = <<>> THEN InvalidUrlError
                      ELSE IF Tail(a4) = <<>> THEN InvalidUrlError
                      ELSE [ok |-> TRUE,
                            value |-> SubSeq(a3, 1, n1) \o <<"/">> \o Tail(a4)]

\* re.match(r"https?://github\.com/([^/]+)/([^/]+)", url): anchored at the
\* start only; "s" is optional; each group is the longest run without "/"
\* (a shorter run cannot be followed by the "/" or be non-empty otherwise).
validate_repo_url(u) ==
    IF ~StartsWith(u, LitHttp) THEN InvalidUrlError
    ELSE LET a1 == Drop(u, Len(LitHttp))
             a2 == IF a1 # <<>> /\ Head(a1) = "s" THEN Tail(a1) ELSE a1
         IN  IF ~StartsWith(a2, LitHost) THEN InvalidUrlError
             ELSE LET a3 == Drop(a2, Len(LitHost))
                      n1 == NonSlashRun(a3)
                      a4 == Drop(a3, n1)
                  IN  IF n1 = 0 \/ a4 = <<>> THEN InvalidUrlError
                      ELSE LET a5 == Tail(a4)
                               n2 == NonSlashRun(a5)
                           IN  IF n2 = 0 THEN InvalidUrlError
                               ELSE [ok |-> TRUE,
                                     value |-> SubSeq(a3, 1, n1) \o <<"/">>
                                               \o SubSeq(a5, 1, n2)]

\* URL inputs: a prefix followed by a short tail over TailChars.
TailChars == {"/", "a", "b", "?"}

UrlPrefixes ==
    { <<"h","t","t","p","s",":","/","/","g","i","t","h","u","b",".","c","o","m","/">>,
      <<"h","t","t","p",":","/","/","g","i","t","h","u","b",".","c","o","m","/">>,
      <<"h","t","t","p","s",":","/","/","g","i","t","h","u","b",".","c","o","m">>,
      <<"h","t","t","p","s",":","/","/","g","i","t","h","u","b","X","c","o","m","/">>,
      <<"h","t","t","p","s",":","/","/","g","i","t","l","a","b",".","c","o","m","/">>,
      <<"h","t","t","p","s","s",":","/","/","g","i","t","h","u","b",".","c","o","m","/">>,
      <<"f","t","p",":","/","/","g","i","t","h","u","b",".","c","o","m","/">>,
      <<"h","t","t","p","s",":","/","g","i","t","h","u","b",".","c","o","m","/">>,
      <<" ","h","t","t","p","s",":","/","/","g","i","t","h","u","b",".","c","o","m","/">>,
      <<"H","T","T","P","S",":","/","/","g","i","t","h","u","b",".","c","o","m","/">>,
      <<>> }

UrlInputs == {p \o t : p \in UrlPrefixes, t \in SeqsUpTo(TailChars, MaxTail)}

-----------------------------------------------------------------------------
(* get_important_file_content, src/app.py lines 26-49.                     *)

priority_files ==
    <<"README.md", "pyproject.toml", "package.json", "requirements.txt",
      "main.py", "app.py", "index.js", "docker-compose.yml", "Dockerfile",
      "pom.xml", "build.gradle">>

\* default arguments of get_important_file_content (line 26)
max_files_default == 7
max_file_size_default == 15000

\* The sort key of line 37: the 0-based index in priority_files, or
\* float('inf'), which Len(priority_files) stands for (above every index).
SortKey(f) ==
    IF \E i \in 1..Len(priority_files) : priority_files[i] = f.name
    THEN (CHOOSE i \in 1..Len(priority_files) : priority_files[i] = f.name) - 1
    ELSE Len(priority_files)

\* An insertion that goes before the elements of equal key: not stable.
InsertByKey_unstable(sorted, f) ==
    LET before == {i \in 1..Len(sorted) : SortKey(sorted[i]) < SortKey(f)}
        n == Cardinality(before)
    IN  SubSeq(sorted, 1, n) \o <<f>> \o SubSeq(sorted, n + 1, Len(sorted))

\* list.sort is stable: an element goes after every element whose key is
\* not greater than its own.
InsertByKey(sorted, f) ==
    LET before == {i \in 1..Len(sorted) : SortKey(sorted[i]) <= SortKey(f)}
        n == Cardinality(before)
    IN  SubSeq(sorted, 1, n) \o <<f>> \o SubSeq(sorted, n + 1, Len(sorted))

RECURSIVE SortByPriority(_)
SortByPriority(fs) ==
    IF fs = <<>> THEN <<>>
    ELSE InsertByKey(SortByPriority(SubSeq(fs, 1, Len(fs) - 1)), fs[Len(fs)])

\* files_to_check[:max_files] for max_files >= 0
Take(s, n) == SubSeq(s, 1, IF n < Len(s) THEN n ELSE Len(s))

TooLargeText(limit) == <<"--- File content too large (>", limit, " bytes) ---">>
UndecodableText == <<"--- Could not decode file content ---">>
DecodedText(f) == <<"text of", f.name>>

\* file_contents[path] = value on a dict that keeps insertion order
DictSet(d, path, value) ==
    IF \E i \in 1..Len(d) : d[i].path = path
    THEN [i \in 1..Len(d) |-> IF d[i].path = path
                              THEN [path |-> path, content |-> value] ELSE d[i]]
    ELSE Append(d, [path |-> path, content |-> value])

\* The loop body of lines 39-46 without its "continue": the content of a
\* file over the limit is fetched all the same and replaces the placeholder.
ProcessFile_nocontinue(acc, f, max_file_size) ==
    LET marked == IF f.size > max_file_size
                  THEN DictSet(acc.file_contents, f.name, TooLargeText(max_file_size))
                  ELSE acc.file_contents
    IN  [file_contents |->
             DictSet(marked, f.name,
                     IF f.content = "text" THEN DecodedText(f) ELSE UndecodableText),
         fetched |-> Append(acc.fetched, f.name)]

\* The loop body of lines 39-46. acc.fetched lists the files whose
\* decoded_content was read (the content request to the forge).
ProcessFile(acc, f, max_file_size) ==
    IF f.size > max_file_size
    THEN [file_contents |->
              DictSet(acc.file_contents, f.name, TooLargeText(max_file_size)),
          fetched |-> acc.fetched]
    ELSE [file_contents |->
              DictSet(acc.file_contents, f.name,
                      IF f.content = "text" THEN DecodedText(f) ELSE UndecodableText),
          fetched |-> Append(acc.fetched, f.name)]

RECURSIVE ProcessFiles(_, _, _)
ProcessFiles(acc, fs, max_file_size) ==
    IF fs = <<>> THEN acc
    ELSE ProcessFiles(ProcessFile(acc, Head(fs), max_file_size), Tail(fs), max_file_size)

\* The loop with an inner handler that catches UnicodeDecodeError alone: a
\* GithubException raised by a content request reaches the handler of line
\* 47, which ends the loop and warns.
RECURSIVE ProcessFiles_outercatch(_, _, _)
ProcessFiles_outercatch(acc, fs, max_file_size) ==
    IF fs = <<>> THEN acc
    ELSE IF Head(fs).size <= max_file_size /\ Head(fs).content = "GithubException"
    THEN [file_contents |-> acc.file_contents,
          fetched |-> Append(acc.fetched, Head(fs).name), warned |-> TRUE]
    ELSE LET step == ProcessFile(acc, Head(fs), max_file_size)
         IN  ProcessFiles_outercatch(
                 [file_contents |-> step.file_contents, fetched |-> step.fetched,
                  warned |-> FALSE],
                 Tail(fs), max_file_size)

get_important_file_content_outercatch(world, max_files, max_file_size) ==
    IF world.listing # 200
    THEN [ok |-> TRUE, file_contents |-> <<>>, fetched |-> <<>>, warned |-> TRUE]
    ELSE LET files_to_check == SelectSeq(world.entries, LAMBDA f : f.type = "file")
             sorted == SortByPriority(files_to_check)
             done == ProcessFiles_outercatch(
                         [file_contents |-> <<>>, fetched |-> <<>>, warned |-> FALSE],
                         Take(sorted, max_files), max_file_size)
         IN  [ok |-> TRUE, file_contents |-> done.file_contents,
              fetched |-> done.fetched, warned |-> done.warned]

\* world.listing is the status of repo.get_contents(""), world.entries what
\* it lists. A failed listing raises GithubException before anything is put
\* in file_contents: line 47 warns and line 49 returns the empty dict.
get_important_file_content(world, max_files, max_file_size) ==
    IF world.listing # 200
    THEN [ok |-> TRUE, file_contents |-> <<>>, fetched |-> <<>>, warned |-> TRUE]
    ELSE LET files_to_check == SelectSeq(world.entries, LAMBDA f : f.type = "file")
             sorted == SortByPriority(files_to_check)
             done == ProcessFiles([file_contents |-> <<>>, fetched |-> <<>>],
                                  Take(sorted, max_files), max_file_size)
         IN  [ok |-> TRUE, file_contents |-> done.file_contents,
              fetched |-> done.fetched, warned |-> FALSE]

\* --- inputs of the selector ---
FileNames == {"README.md", "package.json", "random.txt", "other.txt"}
DirNames == {"docs"}
\* what reading decoded_content and decoding it as UTF-8 does
ContentOutcomes == {"text", "UnicodeDecodeError", "GithubException"}
\* statuses a failed forge call carries
FailureStatuses == {401, 404, 500}
FileSizeLimits == {1, max_file_size_default}

EntriesFor(names, limit, outcomes) ==
    {[name |-> n, type |-> "file", size |-> s, content |-> c] :
        n \in names \cap FileNames, s \in {limit, limit + 1}, c \in outcomes}
    \cup {[name |-> n, type |-> "dir", size |-> 0, content |-> "text"] :
        n \in names \cap DirNames}

\* listings of at most n entries with pairwise different names
RECURSIVE ListingsUpTo(_, _)
ListingsUpTo(E, n) ==
    IF n = 0 THEN {<<>>}
    ELSE LET shorter == ListingsUpTo(E, n - 1)
         IN  shorter \cup
             UNION {{Append(s, e) :
                        e \in {x \in E : \A i \in 1..Len(s) : s[i].name # x.name}} :
                    s \in {t \in shorter : Len(t) = n - 1}}

\* The selector's inputs: a content read either decodes or does not (the
\* two failures of line 45 leave the same entry; RunWorlds draws both).
SelectWorlds(limit) ==
    {[listing |-> 200, entries |-> l] :
        l \in ListingsUpTo(EntriesFor(FileNames \cup DirNames, limit,
                                      {"text", "UnicodeDecodeError"}), MaxListing)}
    \cup {[listing |-> st, entries |-> <<>>] : st \in FailureStatuses}

-----------------------------------------------------------------------------
(* fetch_repo_data, src/app.py lines 51-69.                                *)

Statuses == {200} \cup FailureStatuses

\* A handler that drops the status tests of lines 67-68 and reports every
\* forge failure through the generic message.
ForgeError_generic(status) ==
    <<"Error fetching repo data: ", status>>

\* The except clause of lines 66-69: the message of the Exception raised for
\* a GithubException of the given status.
ForgeError(status) ==
    IF status = 404 THEN <<"Repository not found. Please check the URL.">>
    ELSE IF status = 401
         THEN <<"Authentication error. Please check your GitHub token.">>
         ELSE <<"Error fetching repo data: ", status>>

\* The dict of lines 58-65, reduced to the fields that depend on the inputs
\* the model varies.
RepositoryContext(name, important_files) ==
    [full_name |-> name, important_files |-> important_files]

-----------------------------------------------------------------------------
(* run_ai_analysis, src/app.py lines 75-123.                               *)

AiError(detail) ==
    <<"An error occurred with the AI analysis. Please check your IO Intelligence API key. Details: ",
      detail>>

\* What awaiting run_tasks() and indexing ["results"]["summarize_text"]
\* gives: an exception, a plain string, or an object with some attributes.
AiResponses ==
    {[kind |-> "raise", exc |-> "ConnectionError"],
     [kind |-> "raise", exc |-> "AuthenticationError"],
     [kind |-> "str", text |-> "free text"],
     [kind |-> "object", attrs |-> [type |-> "SummaryResult"]],
     [kind |-> "object", attrs |-> [type |-> "SummaryResult", summary |-> "overview"]],
     [kind |-> "object", attrs |-> [type |-> "SummaryResult", key_points |-> <<"point">>]],
     [kind |-> "object",
      attrs |-> [type |-> "SummaryResult", summary |-> "overview", key_points |-> <<>>]],
     [kind |-> "object",
      attrs |-> [type |-> "SummaryResult", summary |-> "overview",
                 key_points |-> <<"point", "point">>]]}

HasAttr(response, a) == response.kind = "object" /\ a \in DOMAIN response.attrs

\* The attributes read with a default instead of plain access: a response
\* without key_points gives a result that holds the overview alone.
run_ai_analysis_getattr(context, response) ==
    IF response.kind = "raise"
    THEN [ok |-> FALSE, error |-> AiError(response.exc), requests |-> 1]
    ELSE IF ~HasAttr(response, "summary")
    THEN [ok |-> FALSE, error |-> AiError("AttributeError: summary"), requests |-> 1]
    ELSE IF ~HasAttr(response, "key_points")
    THEN [ok |-> TRUE, requests |-> 1,
          value |-> [overview |-> response.attrs.summary]]
    ELSE [ok |-> TRUE, requests |-> 1,
          value |-> [overview |-> response.attrs.summary,
                     features |-> response.attrs.key_points]]

\* The request issued again when the first round trip fails.
run_ai_analysis_retry(context, response) ==
    IF response.kind = "raise"
    THEN [ok |-> FALSE, error |-> AiError(response.exc), requests |-> 2]
    ELSE IF ~HasAttr(response, "summary")
    THEN [ok |-> FALSE, error |-> AiError("AttributeError: summary"), requests |-> 2]
    ELSE IF ~HasAttr(response, "key_points")
    THEN [ok |-> FALSE, error |-> AiError("AttributeError: key_points"), requests |-> 2]
    ELSE [ok |-> TRUE, requests |-> 1,
          value |-> [overview |-> response.attrs.summary,
                     features |-> response.attrs.key_points]]

\* Lines 93-123 against a service that answers `response`: one run_tasks()
\* round trip (line 113), then .summary and .key_points are read (lines
\* 117-118); whatever is raised inside the try is raised again as the one
\* Exception of line 123. `requests` counts the round trips made.
run_ai_analysis(context, response) ==
    IF response.kind = "raise"
    THEN [ok |-> FALSE, error |-> AiError(response.exc), requests |-> 1]
    ELSE IF ~HasAttr(response, "summary")
    THEN [ok |-> FALSE, error |-> AiError("AttributeError: summary"), requests |-> 1]
    ELSE IF ~HasAttr(response, "key_points")
    THEN [ok |-> FALSE, error |-> AiError("AttributeError: key_points"), requests |-> 1]
    ELSE [ok |-> TRUE, requests |-> 1,
          value |-> [overview |-> response.attrs.summary,
                     features |-> response.attrs.key_points]]

-----------------------------------------------------------------------------
(* Values of the variables a specification does not use.                   *)

ValidateIdle == url = <<>> /\ url_result = NotCalled

SelectIdle ==
    /\ sel_world = None
    /\ sel_max_files = 0
    /\ sel_max_file_size = 0
    /\ sel_result = NotCalled

MainIdle ==
    /\ pc = "idle"
    /\ run = 0
    /\ repo_url = <<>>
    /\ repo_name = None
    /\ root_world = None
    /\ files = None
    /\ log = <<>>
    /\ error = None
    /\ warned = FALSE
    /\ analysis_complete = FALSE
    /\ repo_data = None
    /\ ai_results = None
    /\ repo_data_run = 0
    /\ ai_results_run = 0
    /\ rendered = None

-----------------------------------------------------------------------------
(* SpecValidate: validate_repo_url on every URL input.                     *)

InitValidate ==
    /\ url \in UrlInputs
    /\ url_result = NotCalled
    /\ SelectIdle
    /\ MainIdle

CallValidate ==
    /\ url_result = NotCalled
    /\ url_result' = validate_repo_url(url)
    /\ UNCHANGED <<url, selectVars, mainVars>>

NextValidate == CallValidate

SpecValidate == InitValidate /\ [][NextValidate]_vars

-----------------------------------------------------------------------------
(* SpecSelect: get_important_file_content on every listing.                *)

InitSelect ==
    /\ sel_max_file_size \in FileSizeLimits
    /\ sel_world \in SelectWorlds(sel_max_file_size)
    /\ sel_max_files \in 0..MaxFilesArg
    /\ sel_result = NotCalled
    /\ ValidateIdle
    /\ MainIdle

CallSelect ==
    /\ sel_result = NotCalled
    /\ sel_result' = get_important_file_content(sel_world, sel_max_files,
                                                sel_max_file_size)
    /\ UNCHANGED <<sel_world, sel_max_files, sel_max_file_size,
                   validateVars, mainVars>>

NextSelect == CallSelect

SpecSelect == InitSelect /\ [][NextSelect]_vars

-----------------------------------------------------------------------------
(* Spec: main(), src/app.py lines 128-205, over one browser session.       *)
(* One script run that handles a click is cut at its calls to the outside: *)
(* pc says which call comes next, so the steps of a run happen in the      *)
(* order of the code and none is skipped.                                  *)

U_https == <<"h","t","t","p","s",":","/","/","g","i","t","h","u","b",".","c","o","m","/">>
U_http == <<"h","t","t","p",":","/","/","g","i","t","h","u","b",".","c","o","m","/">>

\* texts typed in the URL input
RunUrls ==
    {U_https \o <<"a", "/", "b", "/", "a">>,
     U_http \o <<"b", "/", "a">>,
     U_https \o <<"a">>}

\* what the forge may answer to the root listing inside a run
RunWorlds ==
    {[listing |-> 200, entries |-> l] :
        l \in ListingsUpTo(EntriesFor({"README.md", "random.txt", "docs"},
                                      max_file_size_default, ContentOutcomes),
                           MaxRunListing)}
    \cup {[listing |-> st, entries |-> <<>>] : st \in FailureStatuses}

Init ==
    /\ MainIdle
    /\ ValidateIdle
    /\ SelectIdle

sessionVars == <<analysis_complete, repo_data, ai_results, repo_data_run,
                 ai_results_run>>
otherVars == <<validateVars, selectVars>>

\* The results block, lines 182-205: what it displays, with the runs that
\* wrote the two session entries it reads.
ResultsBlock ==
    IF analysis_complete
    THEN [repo_data |-> repo_data, ai_results |-> ai_results,
          repo_data_run |-> repo_data_run, ai_results_run |-> ai_results_run]
    ELSE None

\* Lines 153-161: the button was pressed with both keys and a URL filled in;
\* the try block is entered.
ClickAnalyze ==
    /\ pc = "idle"
    /\ run < MaxRuns
    /\ \E u \in RunUrls : repo_url' = u
    /\ run' = run + 1
    /\ pc' = "validate"
    /\ repo_name' = None
    /\ root_world' = None
    /\ files' = None
    /\ log' = <<>>
    /\ error' = None
    /\ warned' = FALSE
    /\ UNCHANGED <<sessionVars, rendered, otherVars>>

\* Lines 154-159: the button was pressed with a key or the URL missing:
\* st.warning, then st.stop() ends the script run before the results block.
ClickMissingInput ==
    /\ pc = "idle"
    /\ rendered' = None
    /\ UNCHANGED <<pc, run, repo_url, repo_name, root_world, files, log, error,
                   warned, sessionVars, otherVars>>

\* A script run without the button pressed (another widget changed): line
\* 153 is false and the results block runs on the session state.
RerunWithoutClick ==
    /\ pc = "idle"
    /\ rendered' = ResultsBlock
    /\ UNCHANGED <<pc, run, repo_url, repo_name, root_world, files, log, error,
                   warned, sessionVars, otherVars>>

\* Line 162 with a failed validation going on to the fetch.
Validate_noabort ==
    /\ pc = "validate"
    /\ LET r == validate_repo_url(repo_url)
       IN  /\ log' = Append(log, [call |-> "validate_repo_url", ok |-> r.ok])
           /\ pc' = "get_repo"
           /\ IF r.ok
              THEN repo_name' = r.value /\ UNCHANGED error
              ELSE repo_name' = repo_url /\ error' = [message |-> <<r.error>>]
    /\ UNCHANGED <<run, repo_url, root_world, files, warned, sessionVars,
                   rendered, otherVars>>

\* Lines 162-163: validate_repo_url; its ValueError goes to line 178.
Validate ==
    /\ pc = "validate"
    /\ LET r == validate_repo_url(repo_url)
       IN  /\ log' = Append(log, [call |-> "validate_repo_url", ok |-> r.ok])
           /\ IF r.ok
              THEN /\ repo_name' = r.value
                   /\ pc' = "get_repo"
                   /\ UNCHANGED error
              ELSE /\ error' = [message |-> <<r.error>>]
                   /\ pc' = "except"
                   /\ UNCHANGED repo_name
    /\ UNCHANGED <<run, repo_url, root_world, files, warned, sessionVars,
                   rendered, otherVars>>

\* One forge call of fetch_repo_data's own body and the handler of lines
\* 66-69 when it fails.
ForgeCall(here, call, next) ==
    /\ pc = here
    /\ \E st \in Statuses :
          /\ log' = Append(log, [call |-> call, status |-> st])
          /\ IF st = 200
             THEN pc' = next /\ UNCHANGED error
             ELSE pc' = "except" /\ error' = [message |-> ForgeError(st)]

\* Line 54: g.get_repo(repo_name).
GetRepo ==
    /\ ForgeCall("get_repo", "get_repo", "get_languages")
    /\ UNCHANGED <<run, repo_url, repo_name, root_world, files, warned,
                   sessionVars, rendered, otherVars>>

\* Lines 55-56: repo.get_languages().
GetLanguages ==
    /\ ForgeCall("get_languages", "get_languages", "important_files")
    /\ UNCHANGED <<run, repo_url, repo_name, root_world, files, warned,
                   sessionVars, rendered, otherVars>>

\* the content requests of a selection, as log entries
FetchLog(fetched) ==
    [k \in 1..Len(fetched) |-> [call |-> "decoded_content", path |-> fetched[k]]]

\* Line 57: get_important_file_content(repo) with its default arguments.
ImportantFiles ==
    /\ pc = "important_files"
    /\ \E w \in RunWorlds :
          LET r == get_important_file_content(w, max_files_default,
                                              max_file_size_default)
          IN  /\ root_world' = w
              /\ files' = r.file_contents
              /\ warned' = r.warned
              /\ log' = Append(log, [call |-> "get_contents", status |-> w.listing])
                        \o FetchLog(r.fetched)
    /\ pc' = "get_topics"
    /\ UNCHANGED <<run, repo_url, repo_name, error, sessionVars, rendered,
                   otherVars>>

\* Lines 58-65 and 167-168: repo.get_topics() while the dict is built, the
\* return, and the store of the dict in the session. fetch_repo_data's
\* locals (the listing, important_files) end with it, returning or raising.
GetTopics ==
    /\ pc = "get_topics"
    /\ \E st \in Statuses :
          /\ log' = Append(log, [call |-> "get_topics", status |-> st])
          /\ IF st = 200
             THEN /\ repo_data' = RepositoryContext(repo_name, files)
                  /\ repo_data_run' = run
                  /\ pc' = "ai"
                  /\ UNCHANGED error
             ELSE /\ error' = [message |-> ForgeError(st)]
                  /\ pc' = "except"
                  /\ UNCHANGED <<repo_data, repo_data_run>>
    /\ root_world' = None
    /\ files' = None
    /\ UNCHANGED <<run, repo_url, repo_name, warned,
                   analysis_complete, ai_results, ai_results_run, rendered,
                   otherVars>>

\* `n` copies of the log entry of one round trip to the AI service
AiLog(response, n) == [k \in 1..n |-> [call |-> "run_tasks", response |-> response]]

\* Lines 170-172: asyncio.run(run_ai_analysis(...)) and the store of its
\* result in the session.
RunAI ==
    /\ pc = "ai"
    /\ \E response \in AiResponses :
          LET r == run_ai_analysis(repo_data, response)
          IN  /\ log' = log \o AiLog(response, r.requests)
              /\ IF r.ok
                 THEN /\ ai_results' = r.value
                      /\ ai_results_run' = run
                      /\ pc' = "complete"
                      /\ UNCHANGED error
                 ELSE /\ error' = [message |-> r.error]
                      /\ pc' = "except"
                      /\ UNCHANGED <<ai_results, ai_results_run>>
    /\ UNCHANGED <<run, repo_url, repo_name, root_world, files, warned,
                   analysis_complete, repo_data, repo_data_run, rendered,
                   otherVars>>

\* Lines 174-176: the try block ends without an exception.
Complete ==
    /\ pc = "complete"
    /\ analysis_complete' = TRUE
    /\ pc' = "render"
    /\ UNCHANGED <<run, repo_url, repo_name, root_world, files, log, error,
                   warned, repo_data, ai_results, repo_data_run,
                   ai_results_run, rendered, otherVars>>

\* A handler that shows the error and leaves the flag as it was.
Except_keepflag ==
    /\ pc = "except"
    /\ pc' = "render"
    /\ UNCHANGED <<run, repo_url, repo_name, root_world, files, log, error,
                   warned, sessionVars, rendered, otherVars>>

\* Lines 178-180: st.error and analysis_complete = False.
Except ==
    /\ pc = "except"
    /\ analysis_complete' = FALSE
    /\ pc' = "render"
    /\ UNCHANGED <<run, repo_url, repo_name, root_world, files, log, error,
                   warned, repo_data, ai_results, repo_data_run,
                   ai_results_run, rendered, otherVars>>

\* Lines 182-205 at the end of the script run that handled the click; the
\* script run ends and its locals with it.
Render ==
    /\ pc = "render"
    /\ rendered' = ResultsBlock
    /\ pc' = "idle"
    /\ repo_url' = <<>>
    /\ repo_name' = None
    /\ root_world' = None
    /\ files' = None
    /\ log' = <<>>
    /\ error' = None
    /\ warned' = FALSE
    /\ UNCHANGED <<run, sessionVars, otherVars>>

Next ==
    \/ ClickAnalyze
    \/ ClickMissingInput
    \/ RerunWithoutClick
    \/ Validate
    \/ GetRepo
    \/ GetLanguages
    \/ ImportantFiles
    \/ GetTopics
    \/ RunAI
    \/ Complete
    \/ Except
    \/ Render

Spec == Init /\ [][Next]_vars

-----------------------------------------------------------------------------
(* C1: the URL validator.                                                  *)

\* the pieces of s between its "/" characters
RECURSIVE SplitSlash(_)
SplitSlash(s) ==
    IF \A i \in 1..Len(s) : s[i] # "/" THEN <<s>>
    ELSE LET k == CHOOSE i \in 1..Len(s) :
                      s[i] = "/" /\ \A j \in 1..(i - 1) : s[j] # "/"
         IN  <<SubSeq(s, 1, k - 1)>> \o SplitSlash(SubSeq(s, k + 1, Len(s)))

SchemeHttps == <<"h", "t", "t", "p", "s", ":">>
SchemeHttp == <<"h", "t", "t", "p", ":">>
HostGithub == <<"g", "i", "t", "h", "u", "b", ".", "c", "o", "m">>

\* u is <scheme>//github.com/<owner>/<repo>[/...] with a scheme of schemes
\* and a non-empty owner and repo
HasRepoUrlForm(u, schemes) ==
    LET segs == SplitSlash(u)
    IN  /\ Len(segs) >= 5
        /\ segs[1] \in schemes
        /\ segs[2] = <<>>
        /\ segs[3] = HostGithub
        /\ segs[4] # <<>>
        /\ segs[5] # <<>>

OwnerSlashRepo(u) == SplitSlash(u)[4] \o <<"/">> \o SplitSlash(u)[5]

ValidatesExactly(schemes) ==
    url_result # NotCalled =>
        IF HasRepoUrlForm(url, schemes)
        THEN url_result.ok /\ url_result.value = OwnerSlashRepo(url)
        ELSE url_result = InvalidUrlError

\* C1 as stated: exactly the URLs https://github.com/<owner>/<repo>[...] are
\* accepted, with the first two path components as the result, and every
\* other string fails with the invalid-URL error.
C1_HttpsOnly == ValidatesExactly({SchemeHttps})

\* C1 as amended: exactly the URLs http://github.com/<owner>/<repo>[...] and
\* https://github.com/<owner>/<repo>[...] are accepted, the result being the
\* first two "/"-separated path components whatever segments follow; every
\* other string fails with the invalid-URL error.
C1_HttpOrHttps == ValidatesExactly({SchemeHttps, SchemeHttp})

\* a URL with trailing path segments was accepted and cut to owner/repo
C1_Witness ==
    /\ url_result # NotCalled
    /\ url_result.ok
    /\ Len(SplitSlash(url)) > 5
    /\ Len(url_result.value) < Len(url) - Len(SchemeHttps) - 2 - Len(HostGithub) - 1

-----------------------------------------------------------------------------
(* C2, C3: the file selector.                                              *)

ResultPaths == [i \in 1..Len(sel_result.file_contents) |->
                   sel_result.file_contents[i].path]

InResult(name) == \E i \in 1..Len(ResultPaths) : ResultPaths[i] = name
ContentOf(name) ==
    sel_result.file_contents[CHOOSE i \in 1..Len(ResultPaths) : ResultPaths[i] = name].content
WasFetched(name) ==
    \E i \in 1..Len(sel_result.fetched) : sel_result.fetched[i] = name

RegularFiles == {i \in 1..Len(sel_world.entries) : sel_world.entries[i].type = "file"}
Entry(i) == sel_world.entries[i]

\* C2: the selector returns at most max_files entries; a selected file
\* larger than max_file_size is returned as the too-large placeholder and
\* its content is never requested: only files of size <= max_file_size are
\* fetched.
C2_BoundedAndSizeGuarded ==
    sel_result # NotCalled =>
        /\ Len(sel_result.file_contents) <= sel_max_files
        /\ \A i \in RegularFiles :
              Entry(i).size > sel_max_file_size =>
                  /\ ~WasFetched(Entry(i).name)
                  /\ InResult(Entry(i).name) =>
                         ContentOf(Entry(i).name) = TooLargeText(sel_max_file_size)
        /\ \A k \in 1..Len(sel_result.fetched) :
              \E i \in RegularFiles :
                  /\ Entry(i).name = sel_result.fetched[k]
                  /\ Entry(i).size <= sel_max_file_size

\* the listing held more files than max_files, one returned file is over
\* the limit and a placeholder, one is exactly at the limit and was fetched
C2_Witness ==
    /\ sel_result # NotCalled
    /\ Cardinality(RegularFiles) > sel_max_files
    /\ Len(sel_result.file_contents) = sel_max_files
    /\ \E i \in RegularFiles :
          /\ Entry(i).size > sel_max_file_size
          /\ InResult(Entry(i).name)
          /\ ContentOf(Entry(i).name) = TooLargeText(sel_max_file_size)
    /\ \E i \in RegularFiles :
          /\ Entry(i).size = sel_max_file_size
          /\ WasFetched(Entry(i).name)

IsListed(name) == \E k \in 1..Len(priority_files) : priority_files[k] = name
ListPos(name) == CHOOSE k \in 1..Len(priority_files) : priority_files[k] = name
InputPos(name) == CHOOSE i \in 1..Len(sel_world.entries) : Entry(i).name = name

\* x must come before y in the selector's order
ComesBefore(x, y) ==
    \/ IsListed(x) /\ ~IsListed(y)
    \/ IsListed(x) /\ IsListed(y) /\ ListPos(x) < ListPos(y)
    \/ ~IsListed(x) /\ ~IsListed(y) /\ InputPos(x) < InputPos(y)

ListingNames == {Entry(i).name : i \in 1..Len(sel_world.entries)}

\* C3: the returned files are the first max_files regular files of the
\* listing in the order "listed names first, in priority-list order, then
\* unlisted names in input order"; a listing of README.md, random.txt and
\* package.json with max_files = 2 gives [README.md, package.json] in every
\* input order.
C3_PriorityOrderStable ==
    (sel_result # NotCalled /\ sel_world.listing = 200) =>
        /\ Len(ResultPaths) = IF sel_max_files < Cardinality(RegularFiles)
                              THEN sel_max_files ELSE Cardinality(RegularFiles)
        /\ \A i \in 1..Len(ResultPaths) :
              \E e \in RegularFiles : Entry(e).name = ResultPaths[i]
        /\ \A i, j \in 1..Len(ResultPaths) :
              i < j => ComesBefore(ResultPaths[i], ResultPaths[j])
        /\ \A i \in 1..Len(ResultPaths) : \A e \in RegularFiles :
              ~InResult(Entry(e).name) => ComesBefore(ResultPaths[i], Entry(e).name)
        /\ (/\ ListingNames = {"README.md", "random.txt", "package.json"}
            /\ sel_max_files = 2)
           => ResultPaths = <<"README.md", "package.json">>

\* the input put random.txt first and README.md last, and with max_files = 2
\* README.md and package.json were returned, in that order
C3_Witness ==
    /\ sel_result # NotCalled
    /\ sel_world.listing = 200
    /\ Len(sel_world.entries) = 3
    /\ Entry(1).name = "random.txt"
    /\ Entry(2).name = "package.json"
    /\ Entry(3).name = "README.md"
    /\ sel_max_files = 2
    /\ ResultPaths = <<"README.md", "package.json">>

\* two unlisted files were returned, in their input order, after a listed
\* file the input had put between them
C3_StableWitness ==
    /\ sel_result # NotCalled
    /\ sel_world.listing = 200
    /\ Len(sel_world.entries) = 3
    /\ Entry(1).name = "random.txt"
    /\ Entry(2).name = "README.md"
    /\ Entry(3).name = "other.txt"
    /\ ResultPaths = <<"README.md", "random.txt", "other.txt">>

-----------------------------------------------------------------------------
(* C4-C10: the analysis run and the session.                               *)

DirectForgeCalls == {"get_repo", "get_languages", "get_topics"}
ForgeCalls == DirectForgeCalls \cup {"get_contents", "decoded_content"}
LogIndex == 1..Len(log)
CallsOf(c) == {i \in LogIndex : log[i].call = c}
FailedDirectCall(i) == log[i].call \in DirectForgeCalls /\ log[i].status # 200

\* C4: when a forge call of fetch_repo_data's own body (repository lookup,
\* languages, topics) fails, the run goes to the error handler with no
\* repository context returned, and the message tells the status: 404 the
\* not-found message, 401 the authentication message, any other status the
\* generic message that wraps it.
C4_ForgeFailureByStatus ==
    \A i \in LogIndex :
        FailedDirectCall(i) =>
            /\ i = Len(log)
            /\ pc \in {"except", "render"}
            /\ repo_data_run # run
            /\ log[i].status = 404 =>
                   error = [message |-> <<"Repository not found. Please check the URL.">>]
            /\ log[i].status = 401 =>
                   error = [message |->
                               <<"Authentication error. Please check your GitHub token.">>]
            /\ log[i].status \notin {404, 401} =>
                   error = [message |-> <<"Error fetching repo data: ", log[i].status>>]

\* get_topics was answered 401 after the files were read
C4_Witness ==
    /\ pc = "except"
    /\ Len(log) >= 4
    /\ log[Len(log)] = [call |-> "get_topics", status |-> 401]
    /\ error = [message |-> <<"Authentication error. Please check your GitHub token.">>]
    /\ repo_data_run # run

IsBadResponse(r) ==
    \/ r.kind = "raise"
    \/ r.kind = "str"
    \/ r.kind = "object" /\ "summary" \notin DOMAIN r.attrs
    \/ r.kind = "object" /\ "key_points" \notin DOMAIN r.attrs

IsAiError(e) ==
    /\ e # None
    /\ Len(e.message) = 2
    /\ e.message[1] = "An error occurred with the AI analysis. Please check your IO Intelligence API key. Details: "

\* C5: a round trip that raises, answers free text, or answers an object
\* without summary or without key_points ends in the AI-analysis error, and
\* the run stores no AI result; a stored AI result always holds both the
\* overview and the features.
C5_AiFailureNoPartialResult ==
    /\ ai_results # None => DOMAIN ai_results = {"overview", "features"}
    /\ rendered # None => DOMAIN rendered.ai_results = {"overview", "features"}
    /\ \A i \in CallsOf("run_tasks") :
          IsBadResponse(log[i].response) =>
              /\ pc \in {"except", "render"}
              /\ IsAiError(error)
              /\ ai_results_run # run

\* the service answered an object with a summary and no key_points
C5_Witness ==
    /\ pc = "except"
    /\ \E i \in CallsOf("run_tasks") :
          /\ log[i].response.kind = "object"
          /\ "summary" \in DOMAIN log[i].response.attrs
          /\ "key_points" \notin DOMAIN log[i].response.attrs
    /\ IsAiError(error)
    /\ ai_results_run # run

\* C6: the features of a stored AI result are never empty.
C6_KeyPointsNonEmpty ==
    ai_results # None => Len(ai_results.features) > 0

\* C7: a run validates first; a failed validation is followed by no call to
\* the forge or to the AI service; a failed forge call of fetch_repo_data is
\* followed by no call to the AI service; the AI service is called only
\* after every forge call of the run, with the context of this run stored.
C7_ValidateFetchAnalyze ==
    /\ \A i \in CallsOf("validate_repo_url") : i = 1
    /\ Len(log) > 0 => log[1].call = "validate_repo_url"
    /\ (Len(log) > 0 /\ ~log[1].ok) => Len(log) = 1
    /\ \A i \in LogIndex : FailedDirectCall(i) => CallsOf("run_tasks") = {}
    /\ \A i \in CallsOf("run_tasks") :
          /\ repo_data_run = run
          /\ \E j \in 1..(i - 1) : log[j] = [call |-> "get_topics", status |-> 200]
          /\ \A j \in LogIndex : log[j].call \in ForgeCalls => j < i
    /\ pc = "ai" => repo_data_run = run

\* a run whose URL was rejected reached its end with the validation as its
\* only call
C7_Witness ==
    /\ pc = "render"
    /\ log = <<[call |-> "validate_repo_url", ok |-> FALSE]>>
    /\ error # None

\* C8: a run makes at most one request to the AI service, and exactly one
\* once its context was built and the AI step is over, failed or not.
C8_OneAiRequest ==
    /\ Cardinality(CallsOf("run_tasks")) <= 1
    /\ (pc \in {"complete", "except", "render"} /\ repo_data_run = run) =>
           Cardinality(CallsOf("run_tasks")) = 1

\* the AI step failed and the run reached its end with one request made
C8_Witness ==
    /\ pc = "render"
    /\ repo_data_run = run
    /\ IsAiError(error)
    /\ Cardinality(CallsOf("run_tasks")) = 1

WorldFiles == {i \in 1..Len(root_world.entries) : root_world.entries[i].type = "file"}
FileEntryOf(name) ==
    files[CHOOSE k \in 1..Len(files) : files[k].path = name]
HasFileEntry(name) == \E k \in 1..Len(files) : files[k].path = name

\* C9: after get_important_file_content, a failed listing has given the
\* empty file set and a warning; otherwise every selected file has its entry,
\* the placeholder when its content could not be fetched or decoded; the
\* error handler is never entered from the listing or a file; and when
\* get_topics then succeeds the context of this run is stored (with no files
\* after a failed listing) and the AI call is next.
C9_FileFailuresDoNotAbort ==
    /\ pc = "get_topics" =>
          /\ error = None
          /\ IF root_world.listing # 200
             THEN files = <<>> /\ warned
             ELSE /\ Len(files) = IF Cardinality(WorldFiles) < max_files_default
                                  THEN Cardinality(WorldFiles) ELSE max_files_default
                  /\ \A i \in WorldFiles :
                        LET e == root_world.entries[i]
                        IN  (HasFileEntry(e.name) /\ e.size <= max_file_size_default) =>
                                FileEntryOf(e.name).content =
                                    IF e.content = "text"
                                    THEN DecodedText(e) ELSE UndecodableText
    /\ pc = "except" =>
          log[Len(log)].call \in DirectForgeCalls \cup {"validate_repo_url", "run_tasks"}
    /\ (Len(log) > 0 /\ log[Len(log)] = [call |-> "get_topics", status |-> 200]) =>
          /\ pc = "ai"
          /\ repo_data_run = run
          /\ (\E i \in CallsOf("get_contents") : log[i].status # 200) =>
                 repo_data.important_files = <<>>

\* the listing failed, the context was built without files and the AI
\* service was called
C9_Witness ==
    /\ \E i \in CallsOf("get_contents") : log[i].status # 200
    /\ CallsOf("run_tasks") # {}
    /\ repo_data_run = run
    /\ repo_data.important_files = <<>>
    /\ warned

\* the first of two files could not be fetched and both have their entry
C9_FileWitness ==
    /\ pc = "get_topics"
    /\ root_world.listing = 200
    /\ Len(root_world.entries) = 2
    /\ root_world.entries[1].name = "random.txt"
    /\ root_world.entries[2].name = "README.md"
    /\ root_world.entries[2].content = "GithubException"
    /\ root_world.entries[2].size = max_file_size_default
    /\ root_world.entries[1].content = "text"
    /\ root_world.entries[1].size = max_file_size_default
    /\ files = <<[path |-> "README.md", content |-> UndecodableText],
                 [path |-> "random.txt", content |-> <<"text of", "random.txt">>]>>

\* C10: at the end of a run and between runs, analysis_complete is true only
\* when repo_data and ai_results were both written by the last run and that
\* run raised nothing; a run that failed has set the flag to false; what the
\* results block shows between runs is the pair written by the last run.
C10_CompleteMeansSameRun ==
    /\ (pc \in {"idle", "render"} /\ analysis_complete) =>
          /\ run > 0
          /\ repo_data_run = run
          /\ ai_results_run = run
          /\ error = None
    /\ (pc = "render" /\ error # None) => ~analysis_complete
    /\ (pc = "idle" /\ rendered # None) =>
          /\ analysis_complete
          /\ rendered.repo_data_run = run
          /\ rendered.ai_results_run = run

\* a second run failed at the AI step after a first run had succeeded: the
\* session holds the second run's repo_data beside the first run's
\* ai_results, the flag is false and nothing is shown
C10_Witness ==
    /\ pc = "idle"
    /\ run = 2
    /\ repo_data_run = 2
    /\ ai_results_run = 1
    /\ ~analysis_complete
    /\ rendered = None

=============================================================================
